---- MODULE Spec2Model ----
(***************************************************************************)
(* The two dataset generators, Generative-dataset-code.py and data_code.py *)
(* as one state machine, and the dashboard streamlit_app.py over the file  *)
(* they generate.  Temperatures are integers in tenths of a degree  *)
(* (7.1 C is 71); every other quantity is the integer the script rounds    *)
(* to.  A call of np.random is a nondeterministic choice among the values  *)
(* the call can return; the values a run drew are kept in `stream`, the    *)
(* sequence the generator produces from its seed.                          *)
(***************************************************************************)
EXTENDS Integers, Sequences, FiniteSets

VARIABLES
    script,              \* which of the two scripts runs
    pc,                  \* position in the script
    i,                   \* number of dates of date_range the loop has finished
    m,                   \* index in modes of the mode the inner loop is at
    previous_temp,       \* Generative-dataset-code.py only (tenths)
    temp, precip, wind, condition,   \* the loop body's locals
    rained,              \* 1 when np.random.rand() < precip_chance held, else 0
    temperatures, precipitations, wind_speeds, weather_conditions,
    delays, cancellations, riderships,
    stream,              \* what the generator has produced since it was seeded
    pos,                 \* how many of these values the run has consumed
    outputs,             \* the CSV files written so far, one per run
    n_dates              \* how many dates of date_range the run iterates over

\* streamlit_app.py, the dashboard over the generated file
VARIABLES
    data,                \* the rows of the CSV file, by year and condition
    selected_conditions, selected_modes, selected_years,   \* the widgets
    session_state,       \* st.session_state
    filtered_data,       \* the rows of data the selections keep
    shown,               \* the elements the run has put on the page, in order
    app_pc               \* position in streamlit_app.py

app == <<data, selected_conditions, selected_modes, selected_years,
         session_state, filtered_data, shown, app_pc>>

vars == <<script, pc, i, m, previous_temp, temp, precip, wind, condition,
          rained, temperatures, precipitations, wind_speeds,
          weather_conditions, delays, cancellations, riderships,
          stream, pos, outputs, n_dates, app>>

Generative == "Generative-dataset-code.py"
DataCode == "data_code.py"
Scripts == {Generative, DataCode}

----------------------------------------------------------------------------
(* Bounds of the model. *)

\* The list-carrying specification iterates over the first MaxDays dates.
MaxDays == 2
\* A precipitation amount is sampled at Grain + 1 evenly spaced points.
Grain == 6
\* The specification of repeated runs: MaxRuns runs over RerunDays dates each.
MaxRuns == 2
RerunDays == 1
\* Temperatures (tenths) the classifier is tried on in Generative: -Cold..Warm.
ColdInput == 35
WarmInput == 35

----------------------------------------------------------------------------
(* The calendar: pd.date_range(start_date, end_date), one entry per day. *)

start_date == [year |-> 2019, month |-> 1, day |-> 1]
end_date == [year |-> 2024, month |-> 12, day |-> 31]

\* datetime's proleptic Gregorian day count
ToOrdinal(date) ==
    LET y == IF date.month <= 2 THEN date.year - 1 ELSE date.year
        era == y \div 400
        yoe == y - era * 400
        mp == IF date.month > 2 THEN date.month - 3 ELSE date.month + 9
        doy == (153 * mp + 2) \div 5 + date.day - 1
        doe == yoe * 365 + yoe \div 4 - yoe \div 100 + doy
    IN  era * 146097 + doe - 719468

FromOrdinal(z) ==
    LET s == z + 719468
        era == s \div 146097
        doe == s - era * 146097
        yoe == (doe - doe \div 1460 + doe \div 36524 - doe \div 146096) \div 365
        doy == doe - (365 * yoe + yoe \div 4 - yoe \div 100)
        mp == (5 * doy + 2) \div 153
        d == doy - (153 * mp + 2) \div 5 + 1
        mo == IF mp < 10 THEN mp + 3 ELSE mp - 9
        y == yoe + era * 400
    IN  [year |-> IF mo <= 2 THEN y + 1 ELSE y, month |-> mo, day |-> d]

\* len(date_range) and date_range[k - 1], k = 1 for the first date
NumDates == ToOrdinal(end_date) - ToOrdinal(start_date) + 1
DateAt(k) == FromOrdinal(ToOrdinal(start_date) + k - 1)

----------------------------------------------------------------------------
(* The scripts' tables. *)

modes == <<"Underground", "Bus", "Overground", "Tram", "DLR", "National Rail">>
Modes == {modes[k] : k \in 1..Len(modes)}

monthly_avg_temp ==
    <<5, 6, 9, 12, 16, 19, 22, 21, 18, 14, 9, 6>>

\* A faulty variant: the table ends with November, December has no entry
monthly_avg_precip_NoDecember ==
    <<55, 40, 45, 40, 45, 35, 40, 45, 50, 65, 70>>

monthly_avg_precip ==
    <<55, 40, 45, 40, 45, 35, 40, 45, 50, 65, 70, 65>>

Conditions ==
    {"Thunderstorm", "Heavy Rain", "Heavy Snow", "Light Rain", "Light Snow",
     "Frosty", "Clear", "Partly Cloudy"}

\* round(np.random.uniform(lo, hi)) can return every integer of lo..hi
RoundUniform(lo, hi) == lo..hi

\* A faulty variant: the two weights are exchanged: 0.3 of yesterday, 0.7 of the mean
SmoothedTempsWeightsSwapped(prev, base) ==
    LET mid == 3 * prev + 70 * base
    IN  { t \in (mid - 65) \div 10 .. (mid + 65) \div 10 :
            10 * t >= mid - 65 /\ 10 * t <= mid + 65 }

\* A faulty variant: the noise is added after the blend and so not scaled by
\* 0.7: round(prev * 0.7 + base * 0.3 + noise, 1)
SmoothedTempsNoiseUnscaled(prev, base) ==
    LET mid == 7 * prev + 30 * base
    IN  { t \in (mid - 205) \div 10 .. (mid + 205) \div 10 :
            10 * t >= mid - 205 /\ 10 * t <= mid + 205 }

\* The temperature step of Generative-dataset-code.py, in tenths:
\* round((prev + noise) * 0.7 + base * 0.3, 1) with noise in [-2, 2].  An
\* exact half may round either way.
SmoothedTemps(prev, base) ==
    LET mid == 7 * prev + 30 * base
    IN  { t \in (mid - 145) \div 10 .. (mid + 145) \div 10 :
            10 * t >= mid - 145 /\ 10 * t <= mid + 145 }

\* The temperature of data_code.py: round(np.random.uniform(lo, hi)) by season
SeasonTemps(month) ==
    LET r == IF month \in {12, 1, 2} THEN <<-10, 5>>
             ELSE IF month \in {3, 4, 5} THEN <<5, 20>>
             ELSE IF month \in {6, 7, 8} THEN <<20, 35>>
             ELSE <<10, 25>>
    IN  { 10 * t : t \in RoundUniform(r[1], r[2]) }

TempOutcomes(s, prev, month) ==
    IF s = Generative THEN SmoothedTemps(prev, monthly_avg_temp[month])
    ELSE SeasonTemps(month)

\* A faulty variant: the table is indexed one month off: January reads December
PrecipCeilingMonthBefore(s, month) ==
    IF s = Generative
    THEN monthly_avg_precip[IF month = 1 THEN 12 ELSE month - 1]
    ELSE 20

\* The largest amount the precipitation draw can return on a day of the month
PrecipCeiling(s, month) ==
    IF s = Generative THEN monthly_avg_precip[month] ELSE 20

PrecipOutcomes(s, month) == RoundUniform(0, PrecipCeiling(s, month))

WindOutcomes(s, month) ==
    IF s = Generative
    THEN (IF month \in {11, 12, 1, 2} THEN RoundUniform(15, 35)
          ELSE RoundUniform(5, 25))
    ELSE RoundUniform(5, 30)

----------------------------------------------------------------------------
(* The weather condition classifier. *)

\* A faulty variant: the random branch is entered one millimetre too high
ConsultsRandomOffByOne(s, p, t) ==
    IF s = Generative THEN ~(p > 3) ELSE ~(p > 6)

\* TRUE when the classifier reaches a branch that calls np.random.rand()
ConsultsRandom(s, p, t) ==
    IF s = Generative THEN ~(p > 2) ELSE ~(p > 5)

\* A faulty variant: the results of the two middle tests are exchanged
ClassifyLabelsSwapped(s, p, t, u) ==
    IF s = Generative
    THEN IF p > 20 THEN "Thunderstorm"
         ELSE IF p > 10 THEN (IF t > 0 THEN "Light Rain" ELSE "Light Snow")
         ELSE IF p > 2 THEN (IF t > 0 THEN "Heavy Rain" ELSE "Heavy Snow")
         ELSE IF t < 30 THEN (IF u = 1 THEN "Frosty" ELSE "Clear")
         ELSE (IF u = 1 THEN "Clear" ELSE "Partly Cloudy")
    ELSE IF p > 15 THEN "Thunderstorm"
         ELSE IF p > 10 THEN (IF t > 0 THEN "Light Rain" ELSE "Light Snow")
         ELSE IF p > 5 THEN (IF t > 0 THEN "Heavy Rain" ELSE "Heavy Snow")
         ELSE IF t < 0 THEN (IF u = 1 THEN "Clear" ELSE "Light Snow")
         ELSE (IF u = 1 THEN "Clear" ELSE "Partly Cloudy")

\* The condition for precipitation p and temperature t (tenths); u is 1 when
\* the branch's np.random.rand() fell below its threshold, else 0.
Classify(s, p, t, u) ==
    IF s = Generative
    THEN IF p > 20 THEN "Thunderstorm"
         ELSE IF p > 10 THEN (IF t > 0 THEN "Heavy Rain" ELSE "Heavy Snow")
         ELSE IF p > 2 THEN (IF t > 0 THEN "Light Rain" ELSE "Light Snow")
         ELSE IF t < 30 THEN (IF u = 1 THEN "Frosty" ELSE "Clear")
         ELSE (IF u = 1 THEN "Clear" ELSE "Partly Cloudy")
    ELSE IF p > 15 THEN "Thunderstorm"
         ELSE IF p > 10 THEN (IF t > 0 THEN "Heavy Rain" ELSE "Heavy Snow")
         ELSE IF p > 5 THEN (IF t > 0 THEN "Light Rain" ELSE "Light Snow")
         ELSE IF t < 0 THEN (IF u = 1 THEN "Clear" ELSE "Light Snow")
         ELSE (IF u = 1 THEN "Clear" ELSE "Partly Cloudy")

\* Every condition the classifier can return for (p, t)
ClassifyOutcomes(s, p, t) ==
    IF ConsultsRandom(s, p, t) THEN { Classify(s, p, t, u) : u \in {0, 1} }
    ELSE { Classify(s, p, t, 1) }

----------------------------------------------------------------------------
(* The transport simulation's ranges: <<low, high>> of the uniform draw. *)

\* A faulty variant: Light Rain delays reach 20 minutes, as Heavy Rain's do
DelayRangeLightRainWide(s, c, mode) ==
    LET other == mode # "Underground" IN
    IF c = "Heavy Snow" \/ (s = Generative /\ c = "Thunderstorm")
    THEN (IF other THEN <<20, 35>> ELSE <<10, 20>>)
    ELSE IF c \in {"Thunderstorm", "Light Snow", "Heavy Rain"}
    THEN (IF other THEN <<10, 20>> ELSE <<5, 10>>)
    ELSE IF c = "Light Rain"
    THEN (IF other THEN <<5, 20>> ELSE <<2, 10>>)
    ELSE (IF other THEN <<1, 5>> ELSE <<1, 3>>)

DelayRange(s, c, mode) ==
    LET other == mode # "Underground" IN
    IF c = "Heavy Snow" \/ (s = Generative /\ c = "Thunderstorm")
    THEN (IF other THEN <<20, 35>> ELSE <<10, 20>>)
    ELSE IF c \in {"Thunderstorm", "Light Snow", "Heavy Rain"}
    THEN (IF other THEN <<10, 20>> ELSE <<5, 10>>)
    ELSE IF c = "Light Rain"
    THEN (IF other THEN <<5, 10>> ELSE <<2, 5>>)
    ELSE (IF other THEN <<1, 5>> ELSE <<1, 3>>)

CancelRange(s, c, mode) ==
    LET other == mode # "Underground" IN
    IF c = "Heavy Snow" \/ (s = Generative /\ c = "Thunderstorm")
    THEN (IF other THEN <<8, 15>> ELSE <<2, 5>>)
    ELSE IF c = "Thunderstorm"
    THEN (IF other THEN <<3, 8>> ELSE <<1, 3>>)
    ELSE IF c \in {"Light Snow", "Heavy Rain"}
    THEN (IF other THEN <<4, 8>> ELSE <<1, 3>>)
    ELSE IF c = "Light Rain"
    THEN (IF other THEN <<2, 5>> ELSE <<0, 2>>)
    ELSE (IF other THEN <<0, 2>> ELSE <<0, 1>>)

\* A faulty variant: the test of the mode is inverted in the Heavy Snow branch
RidershipRangeInverted(s, c, mode) ==
    LET other == mode # "Underground" IN
    IF c = "Heavy Snow" \/ (s = Generative /\ c = "Thunderstorm")
    THEN (IF other THEN <<150, 200>> ELSE <<50, 150>>)
    ELSE IF c = "Thunderstorm"
    THEN (IF other THEN <<70, 120>> ELSE <<200, 250>>)
    ELSE IF c \in {"Light Snow", "Heavy Rain"}
    THEN (IF other THEN <<80, 130>> ELSE <<220, 280>>)
    ELSE IF c = "Light Rain"
    THEN (IF other THEN <<90, 140>> ELSE <<250, 300>>)
    ELSE (IF other THEN <<100, 150>> ELSE <<280, 320>>)

RidershipRange(s, c, mode) ==
    LET other == mode # "Underground" IN
    IF c = "Heavy Snow" \/ (s = Generative /\ c = "Thunderstorm")
    THEN (IF other THEN <<50, 150>> ELSE <<150, 200>>)
    ELSE IF c = "Thunderstorm"
    THEN (IF other THEN <<70, 120>> ELSE <<200, 250>>)
    ELSE IF c \in {"Light Snow", "Heavy Rain"}
    THEN (IF other THEN <<80, 130>> ELSE <<220, 280>>)
    ELSE IF c = "Light Rain"
    THEN (IF other THEN <<90, 140>> ELSE <<250, 300>>)
    ELSE (IF other THEN <<100, 150>> ELSE <<280, 320>>)

----------------------------------------------------------------------------
(* The random generator.  A draw returns the next value of the sequence    *)
(* the seed fixes; where the run is the first to get that far, any value   *)
(* the call can return may come, and the sequence grows by it.             *)

Consume(vs) ==
    /\ \A k \in 1..Len(vs) : pos + k <= Len(stream) => vs[k] = stream[pos + k]
    /\ stream' = IF pos + Len(vs) <= Len(stream) THEN stream
                 ELSE SubSeq(stream, 1, pos) \o vs
    /\ pos' = pos + Len(vs)

\* A faulty variant: the call of np.random.seed is missing
NeverSeeded(s, known) == <<>>

\* What is fixed of the generator's sequence when a script starts, `known`
\* being the sequence of the run before: np.random.seed(42) starts the same
\* sequence again; without a seed numpy seeds itself afresh.
SeededStream(s, known) == IF s = Generative THEN known ELSE <<>>

\* The draws a specification with lists explores: the low end (e = 1) or the
\* high end (e = 2) of a range, and for a precipitation amount Grain + 1
\* evenly spaced points of it.
End(S, e) ==
    IF e = 1 THEN CHOOSE x \in S : \A y \in S : x <= y
    ELSE CHOOSE x \in S : \A y \in S : x >= y

Grid(lo, hi) == { lo + ((hi - lo) * k) \div Grain : k \in 0..Grain }

----------------------------------------------------------------------------
(* The script: the state at the loop's first iteration, then its steps. *)

\* streamlit_app.py is not running
AppOff ==
    /\ data = {}
    /\ selected_conditions = {} /\ selected_modes = <<>> /\ selected_years = {}
    /\ session_state = [selected_conditions |-> {}, selected_modes |-> <<>>,
                        selected_years |-> {}]
    /\ filtered_data = {}
    /\ shown = <<>>
    /\ app_pc = "off"

NoLists == [mode \in Modes |-> <<>>]

Start(s, days, known) ==
    /\ script = s
    /\ pc = "loop"
    /\ i = 0
    /\ m = 1
    /\ previous_temp = IF s = Generative THEN 100 ELSE 0
    /\ temp = 0 /\ precip = 0 /\ wind = 0 /\ rained = 0
    /\ condition = "unset"
    /\ temperatures = <<>> /\ precipitations = <<>>
    /\ wind_speeds = <<>> /\ weather_conditions = <<>>
    /\ delays = NoLists /\ cancellations = NoLists /\ riderships = NoLists
    /\ stream = SeededStream(s, known)
    /\ pos = 0
    /\ n_dates = days

Init ==
    /\ \E s \in Scripts : Start(s, MaxDays, <<>>)
    /\ outputs = <<>>
    /\ AppOff

\* Temperature, precipitation and wind of the date (lines 41-57, 24-38).  Of
\* the draws of temperature and wind the model explores both at the low end
\* or both at the high end.
Weather ==
    /\ pc = "loop"
    /\ i < n_dates
    /\ LET month == DateAt(i + 1).month IN
       \E e \in {1, 2} :
          \E t \in {End(TempOutcomes(script, previous_temp, month), e)},
             w \in {End(WindOutcomes(script, month), e)} :
          /\ temp' = t
          /\ previous_temp' = IF script = Generative THEN t ELSE previous_temp
          /\ wind' = w
          /\ \/ /\ rained' = 0
                /\ precip' = 0
                /\ Consume(<<t, 0, w>>)
             \/ \E a \in Grid(0, PrecipCeiling(script, month)) :
                /\ a \in PrecipOutcomes(script, month)
                /\ rained' = 1
                /\ precip' = a
                /\ Consume(<<t, 1, a, w>>)
    /\ pc' = "classify"
    /\ UNCHANGED app
    /\ UNCHANGED <<script, i, m, condition, temperatures, precipitations,
                   wind_speeds, weather_conditions, delays, cancellations,
                   riderships, outputs, n_dates>>

\* The weather condition (lines 59-70, 40-50)
ClassifyStep ==
    /\ pc = "classify"
    /\ IF ConsultsRandom(script, precip, temp)
       THEN \E u \in {0, 1} :
               /\ condition' = Classify(script, precip, temp, u)
               /\ Consume(<<u>>)
       ELSE /\ condition' = Classify(script, precip, temp, 1)
            /\ UNCHANGED <<stream, pos>>
    /\ pc' = "modes"
    /\ m' = 1
    /\ UNCHANGED app
    /\ UNCHANGED <<script, i, previous_temp, temp, precip, wind, rained,
                   temperatures, precipitations, wind_speeds,
                   weather_conditions, delays, cancellations, riderships,
                   outputs, n_dates>>

\* A faulty variant: the Tram pass writes to Overground's lists once more
ModeAtRepeated(k) == modes[IF k = 4 THEN 3 ELSE k]

\* The mode the inner loop is at
ModeAt(k) == modes[k]

\* One pass of `for mode in modes` (lines 73-93, 53-78).  Of the draws the
\* calls of one day can return the model explores those that are all at the
\* low end or all at the high end of their ranges.
ModeStep ==
    /\ pc = "modes"
    /\ LET mode == ModeAt(m)
           dr == DelayRange(script, condition, mode)
           cr == CancelRange(script, condition, mode)
           rr == RidershipRange(script, condition, mode)
           first == RidershipRange(script, condition, modes[1])
       IN  \E e \in {1, 2} :
              /\ m > 1 => first[e] = riderships[modes[1]][i + 1]
              /\ dr[e] \in RoundUniform(dr[1], dr[2])
              /\ cr[e] \in RoundUniform(cr[1], cr[2])
              /\ rr[e] \in RoundUniform(rr[1], rr[2])
              /\ Consume(<<dr[e], cr[e], rr[e]>>)
              /\ delays' = [delays EXCEPT ![mode] = Append(@, dr[e])]
              /\ cancellations' = [cancellations EXCEPT ![mode] = Append(@, cr[e])]
              /\ riderships' = [riderships EXCEPT ![mode] = Append(@, rr[e])]
    /\ IF m < Len(modes)
       THEN m' = m + 1 /\ pc' = "modes"
       ELSE m' = m /\ pc' = "append"
    /\ UNCHANGED app
    /\ UNCHANGED <<script, i, previous_temp, temp, precip, wind, condition,
                   rained, temperatures, precipitations, wind_speeds,
                   weather_conditions, outputs, n_dates>>

\* A faulty variant: a dry day's precipitation is not appended
AppendWeatherDropsDry ==
    /\ pc = "append"
    /\ temperatures' = Append(temperatures, temp)
    /\ precipitations' = IF precip = 0 THEN precipitations
                         ELSE Append(precipitations, precip)
    /\ wind_speeds' = Append(wind_speeds, wind)
    /\ weather_conditions' = Append(weather_conditions, condition)
    /\ i' = i + 1
    /\ pc' = "loop"
    /\ UNCHANGED app
    /\ UNCHANGED <<script, m, previous_temp, temp, precip, wind, condition,
                   rained, delays, cancellations, riderships, stream, pos,
                   outputs, n_dates>>

\* The four appends that end the loop body (lines 95-99, 80-84)
AppendWeather ==
    /\ pc = "append"
    /\ temperatures' = Append(temperatures, temp)
    /\ precipitations' = Append(precipitations, precip)
    /\ wind_speeds' = Append(wind_speeds, wind)
    /\ weather_conditions' = Append(weather_conditions, condition)
    /\ i' = i + 1
    /\ pc' = "loop"
    /\ UNCHANGED app
    /\ UNCHANGED <<script, m, previous_temp, temp, precip, wind, condition,
                   rained, delays, cancellations, riderships, stream, pos,
                   outputs, n_dates>>

\* The columns of the DataFrame, in order
Table ==
    [Date |-> [k \in 1..n_dates |-> DateAt(k)],
     Temperature |-> temperatures,
     Precipitation |-> precipitations,
     WindSpeed |-> wind_speeds,
     WeatherCondition |-> weather_conditions,
     Delays |-> delays,
     Cancellations |-> cancellations,
     Ridership |-> riderships]

\* pd.DataFrame accepts columns of one length only
SameLength ==
    /\ Len(temperatures) = n_dates
    /\ Len(precipitations) = n_dates
    /\ Len(wind_speeds) = n_dates
    /\ Len(weather_conditions) = n_dates
    /\ \A mode \in Modes :
          /\ Len(delays[mode]) = n_dates
          /\ Len(cancellations[mode]) = n_dates
          /\ Len(riderships[mode]) = n_dates

\* After the loop: the DataFrame, the CSV file, the message (lines 101-120)
WriteCsv ==
    /\ pc = "loop"
    /\ i = n_dates
    /\ IF SameLength
       THEN outputs' = Append(outputs, Table) /\ pc' = "done"
       ELSE outputs' = outputs /\ pc' = "ValueError"
    /\ UNCHANGED app
    /\ UNCHANGED <<script, i, m, previous_temp, temp, precip, wind, condition,
                   rained, temperatures, precipitations, wind_speeds,
                   weather_conditions, delays, cancellations, riderships,
                   stream, pos, n_dates>>

Next == Weather \/ ClassifyStep \/ ModeStep \/ AppendWeather \/ WriteCsv

Spec == Init /\ [][Next]_vars

----------------------------------------------------------------------------
(* Running Generative-dataset-code.py again after it has finished: the     *)
(* script starts over, np.random.seed(42) in its sixth line.               *)

Rerun ==
    /\ pc = "done"
    /\ Len(outputs) < MaxRuns
    /\ pc' = "loop"
    /\ i' = 0
    /\ m' = 1
    /\ previous_temp' = IF script = Generative THEN 100 ELSE 0
    /\ temp' = 0 /\ precip' = 0 /\ wind' = 0 /\ rained' = 0
    /\ condition' = "unset"
    /\ temperatures' = <<>> /\ precipitations' = <<>>
    /\ wind_speeds' = <<>> /\ weather_conditions' = <<>>
    /\ delays' = NoLists /\ cancellations' = NoLists /\ riderships' = NoLists
    /\ stream' = SeededStream(script, stream)
    /\ pos' = 0
    /\ UNCHANGED app
    /\ UNCHANGED <<script, outputs, n_dates>>

InitRerun ==
    /\ Start(Generative, RerunDays, <<>>)
    /\ outputs = <<>>
    /\ AppOff

NextRerun ==
    Weather \/ ClassifyStep \/ ModeStep \/ AppendWeather \/ WriteCsv \/ Rerun

SpecRerun == InitRerun /\ [][NextRerun]_vars

----------------------------------------------------------------------------
(* The classifier on its own: every precipitation a script can draw and a  *)
(* range of temperatures as the day's weather, then the classifying step.  *)

PrecipInputs(s) == UNION { PrecipOutcomes(s, month) : month \in 1..12 }

TempInputs(s) ==
    IF s = Generative THEN (0 - ColdInput)..WarmInput
    ELSE UNION { SeasonTemps(month) : month \in 1..12 }

InitClassify ==
    \E s \in Scripts :
       \E p \in PrecipInputs(s), t \in TempInputs(s) :
          /\ script = s
          /\ pc = "classify"
          /\ i = 0
          /\ m = 1
          /\ previous_temp = IF s = Generative THEN t ELSE 0
          /\ temp = t /\ precip = p /\ wind = 0
          /\ rained = IF p > 0 THEN 1 ELSE 0
          /\ condition = "unset"
          /\ temperatures = <<>> /\ precipitations = <<>>
          /\ wind_speeds = <<>> /\ weather_conditions = <<>>
          /\ delays = NoLists /\ cancellations = NoLists /\ riderships = NoLists
          /\ stream = <<>>
          /\ pos = 0
          /\ outputs = <<>>
          /\ n_dates = MaxDays
          /\ AppOff

SpecClassify == InitClassify /\ [][ClassifyStep]_vars

----------------------------------------------------------------------------
(* The temperature series on its own, over the whole of date_range: of the *)
(* loop body only lines 42-46, with every value the step can return.       *)

TemperatureStep ==
    /\ pc = "loop"
    /\ i < n_dates
    /\ \E t \in TempOutcomes(script, previous_temp, DateAt(i + 1).month) :
          /\ temp' = t
          /\ previous_temp' = t
    /\ i' = i + 1
    /\ UNCHANGED app
    /\ UNCHANGED <<script, pc, m, precip, wind, condition, rained,
                   temperatures, precipitations, wind_speeds,
                   weather_conditions, delays, cancellations, riderships,
                   stream, pos, outputs, n_dates>>

InitTemp ==
    /\ Start(Generative, NumDates, <<>>)
    /\ outputs = <<>>
    /\ AppOff

SpecTemp == InitTemp /\ [][TemperatureStep]_vars

----------------------------------------------------------------------------
(* Claims about the run with its lists (Spec). *)

Rows == 1..Len(weather_conditions)

Last(q) == q[Len(q)]

\* The calendar's successor of a date, by the lengths of the months
IsLeap(y) == (y % 4 = 0 /\ y % 100 # 0) \/ y % 400 = 0

DaysIn(y, mo) ==
    IF mo = 2 THEN (IF IsLeap(y) THEN 29 ELSE 28)
    ELSE IF mo \in {4, 6, 9, 11} THEN 30 ELSE 31

NextDay(d) ==
    IF d.day < DaysIn(d.year, d.month)
    THEN [d EXCEPT !.day = d.day + 1]
    ELSE IF d.month < 12
    THEN [d EXCEPT !.month = d.month + 1, !.day = 1]
    ELSE [year |-> d.year + 1, month |-> 1, day |-> 1]

Before(d, e) ==
    \/ d.year < e.year
    \/ d.year = e.year /\ d.month < e.month
    \/ d.year = e.year /\ d.month = e.month /\ d.day < e.day

\* date_range runs from 2019-01-01 to 2024-12-31, each date the day after
\* the one before it
DateRangeIsDaily ==
    /\ DateAt(1) = [year |-> 2019, month |-> 1, day |-> 1]
    /\ DateAt(NumDates) = [year |-> 2024, month |-> 12, day |-> 31]
    /\ \A k \in 1..(NumDates - 1) :
          /\ DateAt(k + 1) = NextDay(DateAt(k))
          /\ Before(DateAt(k), DateAt(k + 1))

RowsAligned ==
    /\ DateRangeIsDaily
    /\ pc = "loop" =>
          /\ Len(temperatures) = i
          /\ Len(precipitations) = i
          /\ Len(wind_speeds) = i
          /\ Len(weather_conditions) = i
          /\ i > 0 => /\ Last(temperatures) = temp
                      /\ Last(precipitations) = precip
                      /\ Last(wind_speeds) = wind
                      /\ Last(weather_conditions) = condition
    /\ pc # "ValueError"
    /\ pc = "done" =>
          LET out == Last(outputs) IN
          /\ Len(out.Date) = n_dates
          /\ \A k \in 1..n_dates : out.Date[k] = DateAt(k)
          /\ Len(out.Temperature) = n_dates
          /\ Len(out.Precipitation) = n_dates
          /\ Len(out.WindSpeed) = n_dates
          /\ Len(out.WeatherCondition) = n_dates
          /\ out.Temperature = temperatures
          /\ out.Precipitation = precipitations
          /\ out.WindSpeed = wind_speeds
          /\ out.WeatherCondition = weather_conditions

\* A row once appended is never changed by a later iteration
RowsKept ==
    /\ Len(temperatures') >= Len(temperatures)
    /\ \A k \in 1..Len(temperatures) :
          /\ temperatures'[k] = temperatures[k]
          /\ precipitations'[k] = precipitations[k]
          /\ wind_speeds'[k] = wind_speeds[k]
          /\ weather_conditions'[k] = weather_conditions[k]

\* C1: the table has one row per date of date_range, the dates consecutive
\* days from 2019-01-01 to 2024-12-31; at every iteration boundary the four
\* weather lists have as many entries as dates are processed, the last entry
\* is the value the iteration computed, and earlier entries stay as they are.
C1_OneRowPerDate == [](RowsAligned) /\ [][RowsKept]_vars

C1_Witness ==
    /\ pc = "done"
    /\ n_dates >= 2
    /\ Last(outputs).Date[2] = [year |-> 2019, month |-> 1, day |-> 2]
    /\ Last(outputs).Temperature[1] # Last(outputs).Temperature[2]

\* C9: at every point of the run each mode has exactly one delay, one
\* cancellation and one ridership entry per processed date; inside an
\* iteration the modes before the one the inner loop is at, in the order
\* Underground, Bus, Overground, Tram, DLR, National Rail, have today's entry
\* too, the weather lists get theirs only after all six; the day is
\* classified from its own precipitation and temperature before any mode is
\* drawn, and every entry of a day lies in the range of that day's condition.
C9_OneRecordPerDateAndMode ==
    /\ pc \in {"loop", "classify", "modes", "append", "done"}
    /\ Len(weather_conditions) = i
    /\ Len(temperatures) = i
    /\ \A k \in 1..Len(modes) :
          LET today == (pc = "modes" /\ k < m) \/ pc = "append"
              n == IF today THEN i + 1 ELSE i
          IN  /\ Len(delays[modes[k]]) = n
              /\ Len(cancellations[modes[k]]) = n
              /\ Len(riderships[modes[k]]) = n
              /\ \A r \in 1..n :
                    LET c == IF r <= i THEN weather_conditions[r] ELSE condition
                        dr == DelayRange(script, c, modes[k])
                        cr == CancelRange(script, c, modes[k])
                        rr == RidershipRange(script, c, modes[k])
                    IN  /\ delays[modes[k]][r] \in dr[1]..dr[2]
                        /\ cancellations[modes[k]][r] \in cr[1]..cr[2]
                        /\ riderships[modes[k]][r] \in rr[1]..rr[2]
    /\ pc \in {"modes", "append"} =>
          condition \in ClassifyOutcomes(script, precip, temp)
    /\ pc = "done" => i = n_dates

C9_Witness ==
    /\ pc = "modes"
    /\ i = 1
    /\ m = 4
    /\ weather_conditions[1] = "Thunderstorm"
    /\ condition = "Clear"
    /\ Len(riderships["Overground"]) = 2
    /\ Len(riderships["Tram"]) = 1

\* C7: a day's precipitation is at least 0 and at most the day's ceiling, the
\* month's average precipitation in Generative-dataset-code.py and 20 in
\* data_code.py, and it is 0 whenever the rain-chance draw failed.
C7_PrecipitationBounded ==
    LET ceiling(k) == IF script = Generative
                      THEN monthly_avg_precip[DateAt(k).month] ELSE 20
    IN  /\ \A k \in 1..Len(precipitations) :
              precipitations[k] >= 0 /\ precipitations[k] <= ceiling(k)
        /\ pc \in {"classify", "modes", "append"} =>
              /\ precip >= 0
              /\ precip <= ceiling(i + 1)
              /\ rained = 0 => precip = 0

C7_Witness ==
    /\ Len(precipitations) = 2
    /\ precipitations[1] = (IF script = Generative THEN 55 ELSE 20)
    /\ precipitations[2] = 0
    /\ rained = 0

\* C5 as claimed: every Underground ridership of a Heavy Snow day is
\* strictly greater than every Bus ridership of a Heavy Snow day.
C5_UndergroundAboveBus ==
    \A a \in Rows, b \in Rows :
        weather_conditions[a] = "Heavy Snow" /\ weather_conditions[b] = "Heavy Snow"
        => riderships["Underground"][a] > riderships["Bus"][b]

\* C5 as amended: every Underground ridership of a Heavy Snow day is greater
\* than or equal to every Bus ridership of a Heavy Snow day.
C5_UndergroundNotBelowBus ==
    \A a \in Rows, b \in Rows :
        weather_conditions[a] = "Heavy Snow" /\ weather_conditions[b] = "Heavy Snow"
        => riderships["Underground"][a] >= riderships["Bus"][b]

C5_Witness ==
    /\ Len(weather_conditions) = 2
    /\ weather_conditions[1] = "Heavy Snow"
    /\ weather_conditions[2] = "Heavy Snow"
    /\ riderships["Underground"][1] = 150
    /\ riderships["Bus"][2] = 150
    /\ riderships["Underground"][2] = 200

\* The severity buckets of the claim, 3 the most disruptive
ClaimedBucket(c) ==
    IF c \in {"Heavy Snow", "Thunderstorm"} THEN 3
    ELSE IF c \in {"Light Snow", "Heavy Rain"} THEN 2
    ELSE IF c = "Light Rain" THEN 1
    ELSE 0

SameRanges(s, c1, c2) ==
    \A mode \in Modes :
        /\ DelayRange(s, c1, mode) = DelayRange(s, c2, mode)
        /\ CancelRange(s, c1, mode) = CancelRange(s, c2, mode)
        /\ RidershipRange(s, c1, mode) = RidershipRange(s, c2, mode)

\* C10 as claimed: days whose conditions are in one bucket use identical
\* ranges, and a day in a strictly more disruptive bucket has at least the
\* delay of a day in a less disruptive one, mode by mode.
C10_BucketsAsClaimed ==
    \A a \in Rows, b \in Rows :
        LET ca == weather_conditions[a]
            cb == weather_conditions[b]
        IN  /\ ClaimedBucket(ca) = ClaimedBucket(cb) => SameRanges(script, ca, cb)
            /\ ClaimedBucket(ca) > ClaimedBucket(cb) =>
                  \A mode \in Modes : delays[mode][a] >= delays[mode][b]

\* The groups of conditions that share all three ranges, and the order of
\* their delay ranges, as the amended claim has them
RangeGroup(s, c) ==
    IF s = Generative THEN ClaimedBucket(c)
    ELSE IF c = "Heavy Snow" THEN 4
    ELSE IF c = "Thunderstorm" THEN 3
    ELSE ClaimedBucket(c)

DelayLevel(s, c) ==
    IF s = DataCode /\ c = "Thunderstorm" THEN 2 ELSE ClaimedBucket(c)

GroupsShareRanges ==
    \A s \in Scripts, c1 \in Conditions, c2 \in Conditions :
        RangeGroup(s, c1) = RangeGroup(s, c2) <=> SameRanges(s, c1, c2)

\* C10 as amended: in Generative-dataset-code.py the buckets are the claimed
\* ones; in data_code.py Thunderstorm has ranges of its own, its delay range
\* that of {Light Snow, Heavy Rain}.  Two conditions select identical ranges
\* exactly when they are in one group, and a day on a strictly higher delay
\* level has at least the delay of a day on a lower one, mode by mode, but
\* for Underground between a Light Rain day and a day of the lowest level
\* (its ranges 2..5 and 1..3 overlap).
C10_BucketsPerScript ==
    /\ GroupsShareRanges
    /\ \A a \in Rows, b \in Rows :
          LET la == DelayLevel(script, weather_conditions[a])
              lb == DelayLevel(script, weather_conditions[b])
          IN  la > lb =>
                 \A mode \in Modes :
                    (mode = "Underground" /\ la = 1 /\ lb = 0)
                    \/ delays[mode][a] >= delays[mode][b]

C10_Witness ==
    /\ script = DataCode
    /\ Len(weather_conditions) = 2
    /\ weather_conditions[1] = "Thunderstorm"
    /\ weather_conditions[2] = "Light Rain"
    /\ delays["Bus"][1] = 10
    /\ delays["Bus"][2] = 10

----------------------------------------------------------------------------
(* Claims about repeated runs (SpecRerun). *)

\* C8: with np.random.seed(42) at its start, every run of
\* Generative-dataset-code.py writes the same file, cell by cell.
C8_RunsAgree ==
    \A a \in 1..Len(outputs), b \in 1..Len(outputs) :
        script = Generative => outputs[a] = outputs[b]

C8_Witness ==
    /\ script = Generative
    /\ Len(outputs) = 2
    /\ outputs[2].Precipitation[1] > 20
    /\ outputs[2].WeatherCondition[1] = "Thunderstorm"
    /\ outputs[2].Delays["Bus"][1] = 35

----------------------------------------------------------------------------
(* Claims about the classifier (SpecClassify). *)

Classified == pc = "modes"

\* The low threshold of the claims
LowThreshold == IF script = Generative THEN 2 ELSE 5

\* C2 as claimed: above the low threshold no random draw is consulted and
\* one condition is possible; a draw chooses between Frosty and Clear or
\* between Clear and Partly Cloudy only.
C2_TiesAsClaimed ==
    Classified =>
       /\ precip > LowThreshold =>
             /\ pos = 0
             /\ ClassifyOutcomes(script, precip, temp) = {condition}
       /\ pos > 0 =>
             \/ /\ ClassifyOutcomes(script, precip, temp) = {"Frosty", "Clear"}
                /\ condition \in {"Frosty", "Clear"}
             \/ /\ ClassifyOutcomes(script, precip, temp) = {"Clear", "Partly Cloudy"}
                /\ condition \in {"Clear", "Partly Cloudy"}

\* C2 as amended: above the low threshold no random draw is consulted and
\* one condition is possible; a draw chooses between Clear and Partly Cloudy
\* or, on the cold side, between Frosty and Clear in
\* Generative-dataset-code.py (temperature below 3) and between Clear and
\* Light Snow in data_code.py (temperature below 0).
C2_TiesPerScript ==
    Classified =>
       /\ precip > LowThreshold =>
             /\ pos = 0
             /\ ClassifyOutcomes(script, precip, temp) = {condition}
       /\ pos > 0 =>
             LET cold == IF script = Generative THEN temp < 30 ELSE temp < 0
                 pair == IF ~cold THEN {"Clear", "Partly Cloudy"}
                         ELSE IF script = Generative THEN {"Frosty", "Clear"}
                         ELSE {"Clear", "Light Snow"}
             IN  /\ ClassifyOutcomes(script, precip, temp) = pair
                 /\ condition \in pair

C2_Witness ==
    /\ Classified
    /\ script = DataCode
    /\ pos = 1
    /\ precip = 5
    /\ temp = -10
    /\ condition = "Light Snow"

Severity(c) ==
    IF c = "Thunderstorm" THEN 3
    ELSE IF c \in {"Heavy Rain", "Heavy Snow"} THEN 2
    ELSE IF c \in {"Light Rain", "Light Snow"} THEN 1
    ELSE 0

SameSign(t1, t2) == (t1 > 0 /\ t2 > 0) \/ (t1 <= 0 /\ t2 <= 0)

\* C3 as claimed: whatever the classifier returned for (precip, temp), every
\* condition it can return for a precipitation at least as high and a
\* temperature of the same sign is at least as severe.
C3_MonotonicAsClaimed ==
    Classified =>
       \A p2 \in PrecipInputs(script), t2 \in TempInputs(script) :
          p2 >= precip /\ SameSign(temp, t2) =>
             \A c2 \in ClassifyOutcomes(script, p2, t2) :
                Severity(c2) >= Severity(condition)

\* C3 as amended: the same, but in data_code.py not where the temperature of
\* the day of lower precipitation is below 0 and the higher precipitation is
\* at most 5: there the tie is between Clear and Light Snow.
C3_MonotonicPerScript ==
    Classified =>
       \A p2 \in PrecipInputs(script), t2 \in TempInputs(script) :
          /\ p2 >= precip
          /\ SameSign(temp, t2)
          /\ ~(script = DataCode /\ temp < 0 /\ p2 <= 5)
          => \A c2 \in ClassifyOutcomes(script, p2, t2) :
                Severity(c2) >= Severity(condition)

C3_Witness ==
    /\ Classified
    /\ script = DataCode
    /\ temp = -10
    /\ precip = 6
    /\ condition = "Light Snow"

\* C4: in Generative-dataset-code.py, whatever the day's condition, the
\* Underground ranges of delay and of cancellation have both ends at or
\* below those of every other mode, and its ridership range both ends at or
\* above.
C4_UndergroundFavorable ==
    Classified /\ script = Generative =>
       \A mode \in Modes \ {"Underground"} :
          LET du == DelayRange(script, condition, "Underground")
              do == DelayRange(script, condition, mode)
              cu == CancelRange(script, condition, "Underground")
              co == CancelRange(script, condition, mode)
              ru == RidershipRange(script, condition, "Underground")
              ro == RidershipRange(script, condition, mode)
          IN  /\ du[1] <= do[1] /\ du[2] <= do[2]
              /\ cu[1] <= co[1] /\ cu[2] <= co[2]
              /\ ru[1] >= ro[1] /\ ru[2] >= ro[2]

C4_Witness ==
    /\ Classified
    /\ script = Generative
    /\ condition = "Light Snow"

----------------------------------------------------------------------------
(* Claims about the temperature series (SpecTemp). *)

Abs(x) == IF x < 0 THEN 0 - x ELSE x

\* C6: from the second day on, the change of temperature from one day to the
\* next is at most 0.7 * 2 + 0.3 * |monthly average - yesterday| + 0.05
\* degrees, and below 8 degrees (tenths: times ten).
C6_DailyChangeBounded ==
    [][ i' = i + 1 /\ i >= 1 =>
          LET base == monthly_avg_temp[DateAt(i + 1).month]
              change == Abs(previous_temp' - previous_temp)
          IN  /\ 10 * change <= 145 + 3 * Abs(10 * base - previous_temp)
              /\ change < 80 ]_vars

\* the first of November 2019 is done, after a warm end of October
C6_Witness ==
    /\ i = 305
    /\ DateAt(i) = [year |-> 2019, month |-> 11, day |-> 1]
    /\ previous_temp = 143

----------------------------------------------------------------------------
(* The run of Generative-dataset-code.py to its end.  The interpreter runs *)
(* the script's statements one after the other, so a step that can be      *)
(* taken is taken.                                                         *)

InitTotal ==
    /\ Start(Generative, MaxDays, <<>>)
    /\ outputs = <<>>
    /\ AppOff

SpecTotal == InitTotal /\ [][Next]_vars /\ WF_vars(Next)

\* every key the loop looks up exists: the month of every date of date_range
\* in both tables, and a range of every metric for every condition and mode
LookupsTotal ==
    /\ \A k \in 1..NumDates :
          /\ DateAt(k).month \in DOMAIN monthly_avg_temp
          /\ DateAt(k).month \in DOMAIN monthly_avg_precip
    /\ \A c \in Conditions : \A k \in DOMAIN modes :
          /\ DelayRange(Generative, c, ModeAt(k))[1]
               <= DelayRange(Generative, c, ModeAt(k))[2]
          /\ CancelRange(Generative, c, ModeAt(k))[1]
               <= CancelRange(Generative, c, ModeAt(k))[2]
          /\ RidershipRange(Generative, c, ModeAt(k))[1]
               <= RidershipRange(Generative, c, ModeAt(k))[2]
    /\ ModeAt(1) \in Modes

\* an iteration is under way or the loop is between two dates: the date
\* it is at lies in the range, and the condition it classified is known
IterationSound ==
    /\ pc \in {"loop", "classify", "modes", "append", "done"}
    /\ i \in 0..n_dates
    /\ pc \in {"classify", "modes", "append"} => i < n_dates
    /\ pc \in {"modes", "append"} => condition \in Conditions
    /\ Len(weather_conditions) = i
    /\ pc = "done" =>
          /\ i = n_dates
          /\ Len(outputs) = 1
          /\ Len(Last(outputs).WeatherCondition) = n_dates
          /\ \A k \in 1..n_dates : Last(outputs).Date[k] = DateAt(k)

\* C11: in Generative-dataset-code.py every lookup of the loop is defined
\* (months, conditions, modes), no iteration fails, every date is processed
\* exactly once, and the run reaches the CSV write and the message.
C11_LoopTotal ==
    /\ [](LookupsTotal /\ IterationSound)
    /\ <>(pc = "done")

\* the file is written after a run with a wet and a dry day
C11_Witness ==
    /\ script = Generative
    /\ pc = "done"
    /\ Len(outputs) = 1
    /\ \E k \in 1..n_dates : Last(outputs).Precipitation[k] > 0
    /\ \E k \in 1..n_dates : Last(outputs).Precipitation[k] = 0

----------------------------------------------------------------------------
(* The carried temperature of Generative-dataset-code.py and the branches  *)
(* of the classifier it can take (SpecTemp, tenths of a degree).           *)

SnowConditions == {"Heavy Snow", "Light Snow"}

ConditionsWithoutSnow ==
    {"Thunderstorm", "Heavy Rain", "Light Rain", "Frosty", "Clear",
     "Partly Cloudy"}

\* what the classifier can return on the date just processed, over every
\* precipitation amount of its month
ConditionsOfTheDay ==
    UNION { ClassifyOutcomes(Generative, p, temp) :
              p \in {0} \cup PrecipOutcomes(Generative, DateAt(i).month) }

\* C12: in Generative-dataset-code.py the carried temperature is between 0.3
\* and 26.7 degrees after every iteration, so it is above 0 and the
\* classifier assigns neither Heavy Snow nor Light Snow, only Thunderstorm,
\* Heavy Rain, Light Rain, Frosty, Clear or Partly Cloudy.
C12_NeverSnow ==
    /\ previous_temp >= 3
    /\ previous_temp <= 267
    /\ i >= 1 =>
          /\ temp = previous_temp
          /\ temp > 0
          /\ ConditionsOfTheDay \cap SnowConditions = {}
          /\ ConditionsOfTheDay \subseteq ConditionsWithoutSnow

\* a January day below one degree: heavy precipitation is rain, a dry day
\* can be Frosty
C12_Witness ==
    /\ i >= 1
    /\ DateAt(i).month = 1
    /\ temp < 10
    /\ ClassifyOutcomes(Generative, 11, temp) = {"Heavy Rain"}
    /\ ClassifyOutcomes(Generative, 3, temp) = {"Light Rain"}
    /\ "Frosty" \in ClassifyOutcomes(Generative, 0, temp)

----------------------------------------------------------------------------
(* streamlit_app.py.  Streamlit runs the script from its first line on     *)
(* every interaction with a widget.  Of a row of the CSV file the year of  *)
(* its date and its condition are kept: the filter reads no other column.  *)

\* The table has rows of the first NumYears years of date_range,
NumYears == 2
\* of the first NumConditions conditions of ConditionOrder,
NumConditions == 2
\* and the sidebar offers the first NumModes transport modes.
NumModes == 2

ConditionOrder ==
    <<"Clear", "Thunderstorm", "Light Rain", "Heavy Rain", "Partly Cloudy",
      "Light Snow", "Heavy Snow", "Frosty">>

transport_modes ==
    <<"Underground", "Bus", "Overground", "Tram", "DLR", "National Rail">>

RowsOfFile ==
    [Year : start_date.year .. (start_date.year + NumYears - 1),
     WeatherCondition : {ConditionOrder[k] : k \in 1..NumConditions}]

\* the files the generator can have written: at least one row
Files == SUBSET RowsOfFile \ {{}}

\* data["Weather Condition"].unique()
condition_options == {r.WeatherCondition : r \in data}

\* sorted(data['Year'].unique())
available_years == {r.Year : r \in data}

\* what the multiselect of the modes can return: modes in the order chosen
ModeSelections ==
    LET S == {transport_modes[k] : k \in 1..NumModes}
    IN  { q \in UNION {[1..n -> S] : n \in 0..NumModes} :
            \A a, b \in DOMAIN q : a # b => q[a] # q[b] }

Show(element) == shown' = Append(shown, element)

\* The first run of a session: nothing is selected, st.session_state is empty
InitApp ==
    /\ Start(DataCode, MaxDays, <<>>)
    /\ outputs = <<>>
    /\ data \in Files
    /\ selected_conditions = {} /\ selected_modes = <<>> /\ selected_years = {}
    /\ session_state = [selected_conditions |-> {}, selected_modes |-> <<>>,
                        selected_years |-> {}]
    /\ filtered_data = {}
    /\ shown = <<>>
    /\ app_pc = "sidebar"

\* Lines 20-72: the widgets return the selections, which are saved; the
\* rows of a selected condition and a selected year are kept; the title
Sidebar ==
    /\ app_pc = "sidebar"
    /\ session_state' = [selected_conditions |-> selected_conditions,
                         selected_modes |-> selected_modes,
                         selected_years |-> selected_years]
    /\ filtered_data' = { r \in data :
                            /\ r.WeatherCondition \in selected_conditions
                            /\ r.Year \in selected_years }
    /\ shown' = <<"title">>
    /\ app_pc' = "guard"
    /\ UNCHANGED <<data, selected_conditions, selected_modes, selected_years>>
    /\ UNCHANGED <<script, pc, i, m, previous_temp, temp, precip, wind,
                   condition, rained, temperatures, precipitations,
                   wind_speeds, weather_conditions, delays, cancellations,
                   riderships, stream, pos, outputs, n_dates>>

AppOnly(step) ==
    /\ step
    /\ UNCHANGED <<data, selected_conditions, selected_modes, selected_years,
                   session_state, filtered_data>>
    /\ UNCHANGED <<script, pc, i, m, previous_temp, temp, precip, wind,
                   condition, rained, temperatures, precipitations,
                   wind_speeds, weather_conditions, delays, cancellations,
                   riderships, stream, pos, outputs, n_dates>>

\* Lines 74-77: the guard on empty selections
EmptySelectionGuard ==
    /\ app_pc = "guard"
    /\ AppOnly(IF \/ selected_conditions = {}
                  \/ selected_modes = <<>>
                  \/ selected_years = {}
               THEN Show("select warning") /\ app_pc' = "footer"
               ELSE shown' = shown /\ app_pc' = "metrics")

\* Lines 83-85: the mean of a column of a table without rows is NaN
MeansAreNaN == filtered_data = {}

\* Lines 78-92: avg_delays.idxmax() is a column label, on which .split(' ')
\* is called; when every mean is NaN it is NaN, a float without .split
\* (an AttributeError), or pandas raises a ValueError itself.  Streamlit
\* shows the exception and ends the run.
KeyMetrics ==
    /\ app_pc = "metrics"
    /\ AppOnly(IF MeansAreNaN
               THEN /\ shown' = shown \o <<"metrics header", "exception">>
                    /\ app_pc' = "error"
               ELSE /\ shown' = shown \o <<"metrics header", "metrics">>
                    /\ app_pc' = "charts")

\* Lines 94-224: the five charts and the insights
Visualizations ==
    /\ app_pc = "charts"
    /\ AppOnly(Show("charts") /\ app_pc' = "predict")

\* Lines 226-277: the decision tree of the first selected mode is trained;
\* the Predict button may have been pressed
Prediction ==
    /\ app_pc = "predict"
    /\ AppOnly(/\ IF selected_modes # <<>>
                  THEN \/ Show("model of " \o selected_modes[1])
                       \/ shown' = shown \o <<"model of " \o selected_modes[1],
                                              "prediction">>
                  ELSE Show("mode warning")
               /\ app_pc' = "download")

\* Lines 279-293: the download section
Download ==
    /\ app_pc = "download"
    /\ AppOnly(/\ IF filtered_data # {}
                  THEN Show("download button")
                  ELSE Show("no data warning")
               /\ app_pc' = "footer")

\* Lines 295-297
Footer ==
    /\ app_pc = "footer"
    /\ AppOnly(Show("footer") /\ app_pc' = "ended")

\* The user changes one of the three selections, or touches a widget of the
\* prediction section, and the script runs again
Interact ==
    /\ app_pc \in {"ended", "error"}
    /\ \/ /\ selected_conditions' \in SUBSET condition_options
          /\ UNCHANGED <<selected_modes, selected_years>>
       \/ /\ selected_modes' \in ModeSelections
          /\ UNCHANGED <<selected_conditions, selected_years>>
       \/ /\ selected_years' \in SUBSET available_years
          /\ UNCHANGED <<selected_conditions, selected_modes>>
    /\ shown' = <<>>
    /\ app_pc' = "sidebar"
    /\ UNCHANGED <<data, session_state, filtered_data>>
    /\ UNCHANGED <<script, pc, i, m, previous_temp, temp, precip, wind,
                   condition, rained, temperatures, precipitations,
                   wind_speeds, weather_conditions, delays, cancellations,
                   riderships, stream, pos, outputs, n_dates>>

NextApp ==
    \/ Sidebar \/ EmptySelectionGuard \/ KeyMetrics \/ Visualizations
    \/ Prediction \/ Download \/ Footer \/ Interact

SpecApp == InitApp /\ [][NextApp]_vars

----------------------------------------------------------------------------
(* Claims about streamlit_app.py. *)

Shown(element) == \E k \in 1..Len(shown) : shown[k] = element

AnySelectionEmpty ==
    \/ selected_conditions = {}
    \/ selected_modes = <<>>
    \/ selected_years = {}

RunPastGuard == app_pc \in {"metrics", "charts", "predict", "download",
                            "footer", "ended", "error"}

\* C13 as claimed: in every rerun of streamlit_app.py, with an empty
\* selection only the warning is shown (no metric, chart, model or
\* download); with three non-empty selections the run goes without error
\* through the key metrics to the download section, where it shows the
\* download button when the filtered data has rows and the "No data
\* available to download" warning when it has none.
C13_GuardsAsClaimed ==
    /\ (RunPastGuard /\ AnySelectionEmpty) =>
          /\ Shown("select warning")
          /\ \A k \in 1..Len(shown) :
                shown[k] \in {"title", "select warning", "footer"}
    /\ (RunPastGuard /\ ~AnySelectionEmpty) =>
          /\ app_pc # "error"
          /\ ~Shown("exception")
          /\ app_pc \in {"charts", "predict", "download", "footer", "ended"}
                => Shown("metrics")
          /\ app_pc \in {"footer", "ended"} =>
                IF filtered_data # {}
                THEN Shown("download button") /\ ~Shown("no data warning")
                ELSE Shown("no data warning") /\ ~Shown("download button")

====
